---- MODULE Spec2Model ----
(***************************************************************************)
(* Authentication core of the DevExy backend: account registration and     *)
(* login (auth/router.py), the token codec (auth/utils.py, python-jose)    *)
(* and the three identity-resolution dependencies (auth/dependencies.py).  *)
(*                                                                         *)
(* Text is modelled as a sequence of one-character strings, so that        *)
(* str(int) and int(str) are computed digit by digit.  The clock counts    *)
(* ticks of 1/TicksPerSecond second; the token codec truncates instants    *)
(* to whole seconds as python-jose does.                                   *)
(***************************************************************************)
EXTENDS Integers, Sequences, FiniteSets, TLC

VARIABLES
    users,      \* rows of the users table (the external account store)
    nextId,     \* next value of the table's serial primary key
    now,        \* the wall clock, in ticks
    held,       \* the token a client kept from a login / get_token response
    resp,       \* the last request handled and the response it got
    flight,     \* register requests under way in the worker processes
    hashed      \* the outputs the credential hasher has produced

vars == <<users, nextId, now, held, resp, flight, hashed>>

----------------------------------------------------------------------------
(* Bounds of the model *)

\* clock resolution: ticks per second; the clock is followed for one second
\* from the start and for one second after a sleep of the tokens' lifetime
TicksPerSecond == 2

----------------------------------------------------------------------------
(* Configuration: core/config.py *)

SECRET_KEY == "your-secret-key-change-in-production"
ALGORITHM == "HS256"
ACCESS_TOKEN_EXPIRE_MINUTES == 30

\* bcrypt cost factor of pwd_context
bcrypt__rounds == 12

\* timedelta(minutes=ACCESS_TOKEN_EXPIRE_MINUTES), in ticks
TTLTicks == ACCESS_TOKEN_EXPIRE_MINUTES * 60 * TicksPerSecond

----------------------------------------------------------------------------
(* Text and the str / int conversions *)

Digits == <<"0", "1", "2", "3", "4", "5", "6", "7", "8", "9">>

IsDigit(c) == \E i \in 1..10 : Digits[i] = c

DigitVal(c) == (CHOOSE i \in 1..10 : Digits[i] = c) - 1

RECURSIVE str(_)
\* str(n) for an integer n >= 0: its decimal rendering
str(n) == IF n < 10 THEN <<Digits[n + 1]>>
          ELSE str(n \div 10) \o <<Digits[(n % 10) + 1]>>

RECURSIVE lstrip(_)
lstrip(s) == IF s # <<>> /\ Head(s) = " " THEN lstrip(Tail(s)) ELSE s

RECURSIVE rstrip(_)
rstrip(s) == IF s # <<>> /\ s[Len(s)] = " " THEN rstrip(SubSeq(s, 1, Len(s) - 1)) ELSE s

RECURSIVE DigitsValue(_)
DigitsValue(s) == IF s = <<>> THEN 0
                  ELSE 10 * DigitsValue(SubSeq(s, 1, Len(s) - 1)) + DigitVal(s[Len(s)])

\* a coercion that falls back to the first identifier
int_defaulting(s) ==
    IF s # <<>> /\ \A i \in 1..Len(s) : IsDigit(s[i])
    THEN [ok |-> TRUE, val |-> DigitsValue(s)]
    ELSE [ok |-> TRUE, val |-> 1]

\* int(s) of Python for text s: surrounding blanks are stripped, one sign is
\* allowed, then one or more digits.  ValueError is [ok |-> FALSE].
int(s) ==
    LET t == rstrip(lstrip(s))
        signed == t # <<>> /\ Head(t) \in {"+", "-"}
        d == IF signed THEN Tail(t) ELSE t
    IN  IF d # <<>> /\ \A i \in 1..Len(d) : IsDigit(d[i])
        THEN [ok |-> TRUE,
              val |-> IF signed /\ Head(t) = "-" THEN 0 - DigitsValue(d) ELSE DigitsValue(d)]
        ELSE [ok |-> FALSE, val |-> 0]

----------------------------------------------------------------------------
(* Credential hasher: auth/utils.py, passlib bcrypt *)

Salts == {"salt1", "salt2"}

\* two passwords of 73 bytes that agree on their first 72
LongPasswords == {"<72 bytes>x", "<72 bytes>y"}

\* bcrypt reads no more than the first 72 bytes of a password
first_72_bytes(plain) == IF plain \in LongPasswords THEN "<72 bytes>" ELSE plain

\* the bcrypt digest of a plaintext under a salt and a cost
Digest(plain, salt, rounds) == <<first_72_bytes(plain), salt, rounds>>

\* pwd_context.hash: the salt is drawn fresh by the caller's step
get_password_hash(password, salt) ==
    [scheme |-> "bcrypt", rounds |-> bcrypt__rounds, salt |-> salt,
     digest |-> Digest(password, salt, bcrypt__rounds)]

\* a stored credential that is no hash of the context's schemes
NotAHash == [scheme |-> "unknown", rounds |-> 0, salt |-> "", digest |-> <<"not-a-hash">>]

\* pwd_context.verify: a hash none of the context's schemes identifies
\* raises UnknownHashError; otherwise the digest is recomputed with the salt
\* and cost embedded in the hash
verify_password(plain_password, hashed_password) ==
    IF hashed_password.scheme # "bcrypt" THEN [raised |-> TRUE, value |-> FALSE]
    ELSE [raised |-> FALSE,
          value |-> hashed_password.digest
                      = Digest(plain_password, hashed_password.salt, hashed_password.rounds)]

----------------------------------------------------------------------------
(* Token codec: auth/utils.py create_access_token, jose.jwt *)

\* a MAC that does not cover the payload
HMAC_without_payload(key, alg, claims) == <<key, alg>>

\* HMAC-SHA256 of the signing input (header and payload segments) under a key
HMAC(key, alg, claims) == <<key, alg, claims>>

\* A compact JWT as it travels: the header's alg, the payload's claims (a
\* record over a subset of {"sub", "exp"}), and the signature segment: the
\* MAC bytes it encodes, the two unused low bits of its final base64url
\* character (slack), and whatever text follows it (tail).
jwt_encode(claims, key, algorithm) ==
    [kind |-> "jwt", alg |-> algorithm, claims |-> claims,
     mac |-> HMAC(key, algorithm, claims), slack |-> 0, tail |-> <<>>]

\* jose.utils.base64url_decode of the signature segment: the unused bits of
\* the final character are dropped; a trailing "=" is padding; a trailing
\* alphabet character adds a byte; any other trailing character is an error.
base64url_decode(token) ==
    IF token.tail = <<>> \/ token.tail = <<"=">>
    THEN [ok |-> TRUE, bytes |-> <<token.mac>>]
    ELSE IF token.tail = <<"x">>
    THEN [ok |-> TRUE, bytes |-> <<token.mac, "x">>]
    ELSE [ok |-> FALSE, bytes |-> <<>>]

\* timegm(datetime.utctimetuple()): an instant truncated to whole seconds
timegm(ticks) == ticks \div TicksPerSecond

\* jose's expiry check: ExpiredSignatureError when exp < now
expired(claims, clock) ==
    "exp" \in DOMAIN claims /\ claims.exp < timegm(clock)

\* jwt.decode(token, key, algorithms): the payload, or JWTError
jwt_decode(token, key, algorithms, clock) ==
    LET fail == [ok |-> FALSE, payload |-> <<>>]
    IN  IF token.kind # "jwt" THEN fail
        ELSE IF token.alg \notin algorithms THEN fail
        ELSE IF ~base64url_decode(token).ok THEN fail
        ELSE IF base64url_decode(token).bytes # <<HMAC(key, token.alg, token.claims)>>
        THEN fail
        ELSE IF expired(token.claims, clock) THEN fail
        ELSE [ok |-> TRUE, payload |-> token.claims]

\* an expiry that forgets the time to live
expire_without_ttl(clock) == clock

\* expire = datetime.utcnow() + timedelta(minutes=ACCESS_TOKEN_EXPIRE_MINUTES)
expire(clock) == clock + TTLTicks

create_access_token(data, clock) ==
    jwt_encode([sub |-> data.sub, exp |-> timegm(expire(clock))],
               SECRET_KEY, ALGORITHM)

----------------------------------------------------------------------------
(* HTTP outcomes *)

NoHeaders == "none"
BearerHeader == "WWW-Authenticate: Bearer"

HTTPException(status_code, detail, headers) ==
    [status |-> status_code, detail |-> detail, headers |-> headers]

----------------------------------------------------------------------------
(* Identity resolution: auth/dependencies.py *)

\* credentials a request may carry
NoCredentials == [kind |-> "none"]

\* security = HTTPBearer(): with auto_error left at its default, a request
\* without bearer credentials is rejected by the scheme itself, before the
\* dependency's body runs.  FastAPI answers 403 up to 0.121 and 401 with a
\* WWW-Authenticate header from 0.122 on; the detail is "Not authenticated"
\* in both.  The set holds every outcome a build can produce.
security(credentials) ==
    IF credentials = NoCredentials
    THEN {[raised |-> TRUE, credentials |-> credentials,
           exc |-> HTTPException(403, "Not authenticated", NoHeaders)],
          [raised |-> TRUE, credentials |-> credentials,
           exc |-> HTTPException(401, "Not authenticated", BearerHeader)]}
    ELSE {[raised |-> FALSE, credentials |-> credentials,
           exc |-> HTTPException(200, "", NoHeaders)]}

credentials_exception ==
    HTTPException(401, "Could not validate credentials", BearerHeader)

\* db.query(models.User).filter(models.User.id == id).first()
find_by_id(db, id) == {a \in db : a.id = id}

Returned(user) == [raised |-> FALSE, exc |-> HTTPException(200, "", NoHeaders), user |-> user]
Raised(exc) == [raised |-> TRUE, exc |-> exc, user |-> {}]

get_current_user(sec, db, clock) ==
    IF sec.raised THEN Raised(sec.exc)
    ELSE
    LET decoded == jwt_decode(sec.credentials, SECRET_KEY, {ALGORITHM}, clock)
    IN  IF ~decoded.ok THEN Raised(credentials_exception)
        ELSE IF "sub" \notin DOMAIN decoded.payload THEN Raised(credentials_exception)
        ELSE IF ~int(decoded.payload.sub).ok THEN Raised(credentials_exception)
        ELSE LET user == find_by_id(db, int(decoded.payload.sub).val)
             IN  IF user = {} THEN Raised(credentials_exception)
                 ELSE Returned(user)

get_optional_user(sec, db, clock) ==
    IF sec.raised THEN Raised(sec.exc)
    ELSE
    LET decoded == jwt_decode(sec.credentials, SECRET_KEY, {ALGORITHM}, clock)
    IN  IF ~decoded.ok THEN Returned({})
        ELSE IF "sub" \notin DOMAIN decoded.payload THEN Returned({})
        ELSE IF ~int(decoded.payload.sub).ok THEN Returned({})
        ELSE Returned(find_by_id(db, int(decoded.payload.sub).val))

inactive_exception == HTTPException(403, "Inactive user", NoHeaders)

get_active_user(sec, db, clock) ==
    LET current_user == get_current_user(sec, db, clock)
    IN  IF current_user.raised THEN current_user
        ELSE IF \E a \in current_user.user : ~a.is_active THEN Raised(inactive_exception)
        ELSE current_user

----------------------------------------------------------------------------
(* Account service: auth/router.py *)

\* db.query(models.User).filter(models.User.username == username).first()
find_by_username(db, username) == {a \in db : a.username = username}

\* an email lookup that never finds a row
find_by_email_none(db, email) == {}

\* db.query(models.User).filter(models.User.email == email).first()
find_by_email(db, email) == {a \in db : a.email = email}

\* a validator that lets every request through
passwords_match_skipped(user) == TRUE

\* UserCreate.passwords_match
passwords_match(user) == user.confirm_password = user.password

validation_exception == HTTPException(422, "Passwords do not match", NoHeaders)
username_exception == HTTPException(400, "Username already registered", NoHeaders)
email_exception == HTTPException(400, "Email already registered", NoHeaders)

\* models.User(...) as the store inserts it: serial id, is_active defaults true
new_User(id, user, hashed_password) ==
    [id |-> id, username |-> user.username, email |-> user.email,
     full_name |-> user.full_name, github_username |-> user.github_username,
     password |-> hashed_password, is_active |-> TRUE]

\* a register that looks the email up first
register_email_first(user, db, id, salt) ==
    IF ~passwords_match(user) THEN [raised |-> TRUE, exc |-> validation_exception, row |-> {}]
    ELSE IF find_by_email(db, user.email) # {}
    THEN [raised |-> TRUE, exc |-> email_exception, row |-> {}]
    ELSE IF find_by_username(db, user.username) # {}
    THEN [raised |-> TRUE, exc |-> username_exception, row |-> {}]
    ELSE [raised |-> FALSE, exc |-> HTTPException(200, "", NoHeaders),
          row |-> {new_User(id, user, get_password_hash(user.password, salt))}]

\* what register does with the request: the exception it raises, or the row it adds
register(user, db, id, salt) ==
    IF ~passwords_match(user) THEN [raised |-> TRUE, exc |-> validation_exception, row |-> {}]
    ELSE IF find_by_username(db, user.username) # {}
    THEN [raised |-> TRUE, exc |-> username_exception, row |-> {}]
    ELSE IF find_by_email(db, user.email) # {}
    THEN [raised |-> TRUE, exc |-> email_exception, row |-> {}]
    ELSE [raised |-> FALSE, exc |-> HTTPException(200, "", NoHeaders),
          row |-> {new_User(id, user, get_password_hash(user.password, salt))}]

\* a store that accepts every insert
unique_violation_unchecked(db, rows) == FALSE

\* the store's unique constraints on the accounts' username and email
unique_violation(db, rows) ==
    \E r \in rows, a \in db : a.username = r.username \/ a.email = r.email

\* an exception no handler converts: get_db_connection rolls back, prints and
\* raises it again, and the server answers 500
internal_server_error == HTTPException(500, "Internal Server Error", NoHeaders)

\* a commit that is left out
commit_forgotten(db, rows) == [raised |-> FALSE, db |-> db]

\* db.add(db_user); db.commit(): the rows are inserted, or the store
\* raises IntegrityError and the transaction is rolled back
commit(db, rows) ==
    IF unique_violation(db, rows) THEN [raised |-> TRUE, db |-> db]
    ELSE [raised |-> FALSE, db |-> db \cup rows]

\* a response that carries the whole row
User_unfiltered(a) == a

\* schemas.User, the response model of register and /me: the fields of the
\* row it lets through
User(a) == [id |-> a.id, username |-> a.username, email |-> a.email,
            full_name |-> a.full_name, github_username |-> a.github_username,
            is_active |-> a.is_active]

login_exception == HTTPException(401, "Invalid username or password", BearerHeader)

\* login's exception for an unknown username
login_unknown_exception == login_exception

\* a wrong-password failure that says so
login_password_exception_telling ==
    HTTPException(401, "Incorrect password", BearerHeader)

\* login's exception for a wrong password
login_password_exception == login_exception

\* the subject login puts into the token
login_sub(user) == user.username

\* what login does: the exception it raises, or the token it mints
login(form_data, db, clock) ==
    LET user == find_by_username(db, form_data.username)
    IN  IF user = {} THEN [raised |-> TRUE, exc |-> login_unknown_exception, token |-> {}]
        ELSE IF \E a \in user : verify_password(form_data.password, a.password).raised
        THEN [raised |-> TRUE, exc |-> internal_server_error, token |-> {}]
        ELSE IF \E a \in user : ~verify_password(form_data.password, a.password).value
        THEN [raised |-> TRUE, exc |-> login_password_exception, token |-> {}]
        ELSE [raised |-> FALSE, exc |-> HTTPException(200, "", NoHeaders),
              token |-> {create_access_token([sub |-> login_sub(a)], clock) : a \in user}]

not_found_exception == HTTPException(404, "User not found", NoHeaders)

\* a subject that is the account's name
get_token_sub_username(user) == user.username

\* the subject get_token puts into the token
get_token_sub(user) == str(user.id)

get_token(user_id, db, clock) ==
    LET user == find_by_id(db, user_id)
    IN  IF user = {} THEN [raised |-> TRUE, exc |-> not_found_exception, token |-> {}]
        ELSE [raised |-> FALSE, exc |-> HTTPException(200, "", NoHeaders),
              token |-> {create_access_token([sub |-> get_token_sub(a)], clock) : a \in user}]

----------------------------------------------------------------------------
(* Requests the clients send *)

Usernames == {<<"a">>, <<"2">>}
Passwords == {"pw1", "pw2"}

\* an Optional[str]: None is the empty set, a text t is {t}
None == {}

\* the requests register gets: every one brings a full name and a handle
UserCreate(username, email, password, confirm_password) ==
    [username |-> username, email |-> email,
     full_name |-> "Full Name", github_username |-> {"handle"},
     password |-> password, confirm_password |-> confirm_password]

\* the registrations tried: two that do not clash, one that shares its
\* username with the first and its email with the second, and one whose
\* confirmation differs
RegisterInputs ==
    {UserCreate(<<"a">>, "a@x.com", "pw1", "pw1"),
     UserCreate(<<"2">>, "b@x.com", "pw2", "pw2"),
     UserCreate(<<"a">>, "b@x.com", "pw1", "pw1"),
     UserCreate(<<"2">>, "a@x.com", "pw1", "pw2")}

LoginInputs == [username : Usernames \cup {<<"b">>}, password : Passwords]

\* an account the store may already hold when the service starts: is_active
\* is written by no endpoint, so an inactive account comes from outside
SeedAccount ==
    [id |-> 1, username |-> <<"b">>, email |-> "b@y.com",
     full_name |-> "Full Name", github_username |-> {"handle"},
     password |-> get_password_hash("pw2", "salt1"), is_active |-> FALSE]

InitialStores == {{}, {SeedAccount}}

Keys == {SECRET_KEY, "another-key"}

SubjectInputs == {<<"1">>, <<"2">>, <<"a">>, <<"0", "1">>, <<"-", "1">>}

\* payloads of the tokens a client may bring that no endpoint minted:
\* unexpired ones for each subject, an expired one, one without a subject
ClaimInputs(clock) ==
    {[sub |-> s, exp |-> timegm(clock) + 1] : s \in SubjectInputs}
    \cup {[sub |-> <<"1">>, exp |-> timegm(clock) - 1]}
    \cup {[exp |-> timegm(clock) + 1]}

\* a bearer string that is no JWT
Garbage == [kind |-> "garbage"]

Forged(clock) ==
    {jwt_encode(c, SECRET_KEY, ALGORITHM) : c \in ClaimInputs(clock)}
    \cup {jwt_encode([sub |-> <<"1">>, exp |-> timegm(clock) + 1], k, ALGORITHM) :
            k \in Keys \ {SECRET_KEY}}

\* the one-character changes of a token: of a separating dot, in the
\* header, in the payload, in the signature's data bits, in the unused bits
\* of its final character
Tampered(t) ==
    {Garbage,
     [t EXCEPT !.alg = "HS257"],
     [t EXCEPT !.claims = [t.claims EXCEPT !.exp = @ + 1]],
     [t EXCEPT !.mac = <<"flipped">>]}
    \cup {[t EXCEPT !.slack = k] : k \in 1..3}

\* a token with one character appended
Appended(t) == {[t EXCEPT !.tail = <<c>>] : c \in {"x", "=", "!"}}

Presented(clock, kept) ==
    {NoCredentials, Garbage}
    \cup Forged(clock)
    \cup {h.token : h \in kept}
    \cup UNION {Tampered(h.token) \cup Appended(h.token) : h \in kept}

----------------------------------------------------------------------------
(* The state machine *)

Idle == [op |-> "idle"]

\* the worker processes that serve requests side by side
Workers == {"w1", "w2"}

\* no register request is under way
NoFlight == [w \in Workers |-> [pc |-> "idle", user |-> {}]]

\* body: the records the response's JSON carries besides the token;
\* llm: the calls to the LLM provider made while the request was handled;
\* provider: what the provider did; events: what happened on a websocket
Response(op, req, exc, uid, token) ==
    [op |-> op, req |-> req, status |-> exc.status, detail |-> exc.detail,
     headers |-> exc.headers, uid |-> uid, token |-> token, body |-> {}, llm |-> 0,
     provider |-> "none", events |-> <<>>]

Init ==
    /\ users \in InitialStores
    /\ nextId = 1 + Cardinality(users)
    /\ now = 0
    /\ held = {}
    /\ resp = Idle
    /\ flight = NoFlight
    /\ hashed = {}

\* POST /auth/register handled in one piece
Register ==
    \E user \in RegisterInputs, salt \in Salts :
        LET r == register(user, users, nextId, salt)
            c == commit(users, r.row)
        IN  /\ users' = c.db
            /\ nextId' = IF r.raised \/ c.raised THEN nextId ELSE nextId + 1
            /\ resp' = [Response("register", user,
                                  IF c.raised THEN internal_server_error ELSE r.exc,
                                  IF c.raised THEN {} ELSE {a.id : a \in r.row}, {})
                          EXCEPT !.body = IF c.raised THEN {} ELSE {User(a) : a \in r.row}]
            /\ UNCHANGED <<now, held>>
            /\ UNCHANGED <<flight, hashed>>

Login ==
    \E form_data \in LoginInputs, keep \in BOOLEAN :
        LET r == login(form_data, users, now)
        IN  /\ resp' = Response("login", form_data, r.exc, {}, r.token)
            /\ held' = IF keep /\ ~r.raised
                       THEN {[token |-> t, via |-> "login", minted |-> now,
                              sub |-> login_sub(a), uid |-> a.id] :
                                t \in r.token,
                                a \in find_by_username(users, form_data.username)}
                       ELSE held
            /\ UNCHANGED <<users, nextId, now>>
            /\ UNCHANGED <<flight, hashed>>

GetToken ==
    \E user_id \in 1..3, keep \in BOOLEAN :
        LET r == get_token(user_id, users, now)
        IN  /\ resp' = Response("token", [user_id |-> user_id], r.exc, {}, r.token)
            /\ held' = IF keep /\ ~r.raised
                       THEN {[token |-> t, via |-> "token", minted |-> now,
                              sub |-> str(user_id), uid |-> user_id] : t \in r.token}
                       ELSE held
            /\ UNCHANGED <<users, nextId, now>>
            /\ UNCHANGED <<flight, hashed>>

\* GET /auth/me
Me ==
    \E credentials \in Presented(now, held) : \E sec \in security(credentials) :
        LET r == get_current_user(sec, users, now)
        IN  /\ resp' = [Response("me", [credentials |-> credentials], r.exc,
                                 {a.id : a \in r.user}, {})
                          EXCEPT !.body = {User(a) : a \in r.user}]
            /\ UNCHANGED <<users, nextId, now, held>>
            /\ UNCHANGED <<flight, hashed>>

\* GET /auth/user-status
UserStatus ==
    \E credentials \in Presented(now, held) : \E sec \in security(credentials) :
        LET r == get_optional_user(sec, users, now)
        IN  /\ resp' = [Response("user-status", [credentials |-> credentials], r.exc,
                                 {a.id : a \in r.user}, {})
                          EXCEPT !.body = IF r.raised THEN {}
                                          ELSE {[authenticated |-> r.user # {},
                                                 user_id |-> {a.id : a \in r.user}]}]
            /\ UNCHANGED <<users, nextId, now, held>>
            /\ UNCHANGED <<flight, hashed>>

\* GET /auth/active-only
ActiveOnly ==
    \E credentials \in Presented(now, held) : \E sec \in security(credentials) :
        LET r == get_active_user(sec, users, now)
        IN  /\ resp' = [Response("active-only", [credentials |-> credentials], r.exc,
                                 {a.id : a \in r.user}, {})
                          EXCEPT !.body = {[message |-> "You are an active user",
                                            user_id |-> a.id] : a \in r.user}]
            /\ UNCHANGED <<users, nextId, now, held>>
            /\ UNCHANGED <<flight, hashed>>

\* the clock advances by one tick, within a second of where it stood
Tick ==
    /\ (now % TTLTicks) < TicksPerSecond
    /\ now' = now + 1
    /\ resp' = Idle
    /\ UNCHANGED <<users, nextId, held>>
    /\ UNCHANGED <<flight, hashed>>

\* the clock advances by the tokens' time to live
Sleep ==
    /\ now < TTLTicks
    /\ now' = now + TTLTicks
    /\ resp' = Idle
    /\ UNCHANGED <<users, nextId, held>>
    /\ UNCHANGED <<flight, hashed>>

\* The account service at one instant: requests are handled faster than the
\* clock's resolution
Next ==
    \/ Register
    \/ Login
    \/ GetToken
    \/ Me
    \/ UserStatus
    \/ ActiveOnly

Spec == Init /\ [][Next]_vars

\* POST /auth/register step by step in a worker process w.  The request
\* body is validated before the handler runs.
RegisterBegin(w) ==
    \E user \in RegisterInputs :
        /\ flight[w].pc = "idle"
        /\ IF ~passwords_match(user)
           THEN /\ resp' = Response("register", user, validation_exception, {}, {})
                /\ UNCHANGED flight
           ELSE /\ flight' = [flight EXCEPT ![w] = [pc |-> "username", user |-> {user}]]
                /\ UNCHANGED resp
        /\ UNCHANGED <<users, nextId, now, held, hashed>>

\* the lookup by username reads what is committed
RegisterCheckUsername(w) ==
    \E user \in flight[w].user :
        /\ flight[w].pc = "username"
        /\ IF find_by_username(users, user.username) # {}
           THEN /\ resp' = Response("register", user, username_exception, {}, {})
                /\ flight' = [flight EXCEPT ![w] = NoFlight[w]]
           ELSE /\ flight' = [flight EXCEPT ![w].pc = "email"]
                /\ UNCHANGED resp
        /\ UNCHANGED <<users, nextId, now, held, hashed>>

\* the lookup by email reads what is committed
RegisterCheckEmail(w) ==
    \E user \in flight[w].user :
        /\ flight[w].pc = "email"
        /\ IF find_by_email(users, user.email) # {}
           THEN /\ resp' = Response("register", user, email_exception, {}, {})
                /\ flight' = [flight EXCEPT ![w] = NoFlight[w]]
           ELSE /\ flight' = [flight EXCEPT ![w].pc = "commit"]
                /\ UNCHANGED resp
        /\ UNCHANGED <<users, nextId, now, held, hashed>>

\* the password is hashed, the row added and committed; register has no
\* handler around the commit
RegisterCommit(w) ==
    \E user \in flight[w].user, salt \in Salts :
        LET row == {new_User(nextId, user, get_password_hash(user.password, salt))}
            c == commit(users, row)
        IN  /\ flight[w].pc = "commit"
            /\ users' = c.db
            /\ nextId' = IF c.raised THEN nextId ELSE nextId + 1
            /\ resp' = [Response("register", user,
                                  IF c.raised THEN internal_server_error
                                  ELSE HTTPException(200, "", NoHeaders),
                                  IF c.raised THEN {} ELSE {a.id : a \in row}, {})
                          EXCEPT !.body = IF c.raised THEN {} ELSE {User(a) : a \in row}]
            /\ flight' = [flight EXCEPT ![w] = NoFlight[w]]
            /\ UNCHANGED <<now, held, hashed>>

\* Registrations handled side by side by the worker processes
NextRace ==
    \/ \E w \in Workers : RegisterBegin(w)
    \/ \E w \in Workers : RegisterCheckUsername(w)
    \/ \E w \in Workers : RegisterCheckEmail(w)
    \/ \E w \in Workers : RegisterCommit(w)

SpecRace == Init /\ [][NextRace]_vars

\* an account whose stored credential was not written by register
LegacyAccount ==
    [id |-> 1, username |-> <<"b">>, email |-> "b@y.com",
     full_name |-> "Full Name", github_username |-> {"handle"},
     password |-> NotAHash, is_active |-> TRUE]

InitHasher ==
    /\ users = {LegacyAccount}
    /\ nextId = 2
    /\ now = 0
    /\ held = {}
    /\ resp = Idle
    /\ flight = NoFlight
    /\ hashed = {}

\* get_password_hash(password)
HashPassword ==
    \E password \in Passwords \cup LongPasswords, salt \in Salts :
        LET h == get_password_hash(password, salt)
        IN  /\ hashed' = hashed \cup {[plain |-> password, hash |-> h]}
            /\ resp' = [op |-> "get_password_hash", req |-> [password |-> password],
                        hash |-> h]
            /\ UNCHANGED <<users, nextId, now, held, flight>>

\* verify_password(plain_password, hashed_password) on a hash produced
\* before, or on a stored credential that is none
VerifyPassword ==
    \E plain_password \in Passwords \cup LongPasswords,
       hashed_password \in {x.hash : x \in hashed} \cup {NotAHash} :
        LET v == verify_password(plain_password, hashed_password)
        IN  /\ resp' = [op |-> "verify_password",
                        req |-> [plain_password |-> plain_password,
                                 hashed_password |-> hashed_password],
                        raised |-> v.raised, value |-> v.value]
            /\ UNCHANGED <<users, nextId, now, held, flight, hashed>>

\* The credential hasher on its own, and login over a stored credential
NextHasher ==
    \/ HashPassword
    \/ VerifyPassword
    \/ Login

SpecHasher == InitHasher /\ [][NextHasher]_vars

\* A store as registration leaves it: the seed account and one registered
\* after it
PopulatedStore ==
    {SeedAccount}
    \cup register(UserCreate(<<"a">>, "a@x.com", "pw1", "pw1"), {SeedAccount}, 2, "salt1").row

InitClock ==
    /\ users = PopulatedStore
    /\ nextId = 3
    /\ now = 0
    /\ held = {}
    /\ resp = Idle
    /\ flight = NoFlight
    /\ hashed = {}

\* The life of tokens over time, on a populated store
NextClock ==
    \/ Login
    \/ GetToken
    \/ Me
    \/ UserStatus
    \/ ActiveOnly
    \/ Tick
    \/ Sleep

SpecClock == InitClock /\ [][NextClock]_vars

----------------------------------------------------------------------------
(* Requests to change an account *)

\* schemas.UserUpdate: every field is optional and None when left out
UserUpdate(full_name, email, github_username) ==
    [full_name |-> full_name, email |-> email, github_username |-> github_username]

\* the updates tried: only the email (a free one, a taken one), the handle
\* cleared, the handle and the full name replaced, nothing
UpdateInputs ==
    {UserUpdate(None, {"new@x.com"}, None),
     UserUpdate(None, {"b@y.com"}, None),
     UserUpdate(None, None, {""}),
     UserUpdate({"New Name"}, None, {"other"}),
     UserUpdate(None, None, None)}

\* what the application answers to a method or path that no router declares
no_route ==
    {HTTPException(405, "Method Not Allowed", NoHeaders),
     HTTPException(404, "Not Found", NoHeaders)}

\* A request to update the caller's account.  The auth router declares
\* register, login, token, me (GET), user-status and active-only, and no
\* handler takes a UserUpdate: the request matches no route, whatever
\* credentials it brings.
UpdateMe ==
    \E credentials \in {NoCredentials} \cup {h.token : h \in held},
       fields \in UpdateInputs, exc \in no_route :
        /\ resp' = Response("update", [credentials |-> credentials, fields |-> fields],
                             exc, {}, {})
        /\ UNCHANGED <<users, nextId, now, held, flight, hashed>>

\* Updates of the accounts of a populated store by the holders of tokens
NextUpdate ==
    \/ Login
    \/ GetToken
    \/ Me
    \/ UpdateMe

SpecUpdate == InitClock /\ [][NextUpdate]_vars

----------------------------------------------------------------------------
(* The LLM endpoints: test_gen, diagram_gen, requirements_manage *)

\* what a service call comes to: the provider answers, the provider call
\* fails, or the service's constructor finds no API key and calls nothing
LLMOutcomes == {"answered", "failed", "unconfigured"}

\* a service method that calls the provider again when the call failed
llm_calls_retrying(outcome) ==
    IF outcome = "unconfigured" THEN 0 ELSE IF outcome = "answered" THEN 1 ELSE 2

\* the generate_content calls a service method makes
llm_calls(outcome) == IF outcome = "unconfigured" THEN 0 ELSE 1

\* an HTTP endpoint's handler behind its dependency: the dependency's
\* exception is the response; otherwise the service is called and whatever
\* it raises becomes a 500
forward(op, credentials, r, outcome) ==
    IF r.raised
    THEN Response(op, [credentials |-> credentials], r.exc, {}, {})
    ELSE [Response(op, [credentials |-> credentials],
                   IF outcome = "answered" THEN HTTPException(200, "", NoHeaders)
                   ELSE HTTPException(500, "service error", NoHeaders),
                   {a.id : a \in r.user}, {})
          EXCEPT !.llm = llm_calls(outcome), !.provider = outcome]

\* the credentials object the websocket handler builds from its query
\* parameter, in place of the bearer scheme
MockCredentials(token) ==
    [raised |-> FALSE, credentials |-> token, exc |-> HTTPException(200, "", NoHeaders)]

\* a websocket handler that takes whoever the token resolves to, if anyone
websocket_current_user_optional(token, db, clock) ==
    get_optional_user(MockCredentials(token), db, clock)

\* get_active_user(current_user=get_current_user(credentials=MockCredentials(token)))
websocket_current_user(token, db, clock) ==
    get_active_user(MockCredentials(token), db, clock)

\* POST /test-generation/generate-unit-tests
GenerateTests ==
    \E credentials \in Presented(now, held), outcome \in LLMOutcomes :
        \E sec \in security(credentials) :
            /\ resp' = forward("generate-unit-tests", credentials,
                                get_active_user(sec, users, now), outcome)
            /\ UNCHANGED <<users, nextId, now, held, flight, hashed>>

\* POST /test-generation/generate-integration-tests
GenerateIntegrationTests ==
    \E credentials \in Presented(now, held), outcome \in LLMOutcomes :
        \E sec \in security(credentials) :
            /\ resp' = forward("generate-integration-tests", credentials,
                                get_active_user(sec, users, now), outcome)
            /\ UNCHANGED <<users, nextId, now, held, flight, hashed>>

\* what generate_content_stream comes to: as a plain call, or it fails
\* after chunks were streamed
StreamOutcomes == LLMOutcomes \cup {"interrupted"}

\* what the client does once the socket is accepted: it sends its request,
\* sends something else, or goes away
ClientMessages == {"request", "invalid", "disconnect"}

\* the refused path put in the wrong order
websocket_refused_unaccepted(detail) ==
    <<"send_text Authentication error", "close 1008">>

\* lines 66-75: what the handler does on the socket when authentication raised
websocket_refused(detail) ==
    <<"accept", "send_text Authentication error", "close 1008">>

\* lines 38-64: what the handler does on the socket once authentication
\* passed: accept, read the client's message, stream the chunks; an
\* exception becomes one "Error" message, a disconnect is passed over
websocket_served(message, outcome) ==
    <<"accept", "receive_json">>
    \o (IF message = "disconnect" THEN <<>>
        ELSE IF message = "invalid" THEN <<"send_text Error">>
        ELSE IF outcome = "answered" THEN <<"send_text chunk">>
        ELSE IF outcome = "interrupted" THEN <<"send_text chunk", "send_text Error">>
        ELSE <<"send_text Error">>)

\* WS /test-generation/ws/generate-unit-tests?token=...: the handler
\* resolves the token itself; an exception closes the socket with 1008 after
\* the message "Authentication error: ..."; otherwise the socket is
\* accepted, the tests are streamed (an error becomes a message) and the
\* handler returns
GenerateTestsWebsocket ==
    \E token \in Presented(now, held) \ {NoCredentials},
       message \in ClientMessages, outcome \in StreamOutcomes :
        LET r == websocket_current_user(token, users, now)
            called == IF message = "request" THEN outcome ELSE "none"
        IN  /\ resp' = IF r.raised
                       THEN [Response("ws/generate-unit-tests", [credentials |-> token],
                                      [status |-> 1008, detail |-> r.exc.detail,
                                       headers |-> NoHeaders], {}, {})
                             EXCEPT !.events = websocket_refused(r.exc.detail)]
                       ELSE [Response("ws/generate-unit-tests", [credentials |-> token],
                                      [status |-> 1000,
                                       detail |-> IF called \in {"answered", "none"} THEN ""
                                                  ELSE "service error",
                                       headers |-> NoHeaders],
                                      {a.id : a \in r.user}, {})
                             EXCEPT !.llm = IF called = "none" THEN 0 ELSE llm_calls(called),
                                    !.provider = called,
                                    !.events = websocket_served(message, outcome)]
            /\ UNCHANGED <<users, nextId, now, held, flight, hashed>>

\* POST /diagrams/generate
GenerateDiagram ==
    \E credentials \in Presented(now, held), outcome \in LLMOutcomes :
        \E sec \in security(credentials) :
            /\ resp' = forward("diagrams/generate", credentials,
                                get_current_user(sec, users, now), outcome)
            /\ UNCHANGED <<users, nextId, now, held, flight, hashed>>

\* POST /requirements/analyze
AnalyzeRequirements ==
    \E credentials \in Presented(now, held), outcome \in LLMOutcomes :
        \E sec \in security(credentials) :
            /\ resp' = forward("requirements/analyze", credentials,
                                get_active_user(sec, users, now), outcome)
            /\ UNCHANGED <<users, nextId, now, held, flight, hashed>>

\* POST /requirements/optimize
OptimizeRequirements ==
    \E credentials \in Presented(now, held), outcome \in LLMOutcomes :
        \E sec \in security(credentials) :
            /\ resp' = forward("requirements/optimize", credentials,
                                get_active_user(sec, users, now), outcome)
            /\ UNCHANGED <<users, nextId, now, held, flight, hashed>>

\* The LLM endpoints over a populated store, with the tokens login and
\* get_token hand out
NextProxy ==
    \/ Login
    \/ GetToken
    \/ GenerateTests
    \/ GenerateIntegrationTests
    \/ GenerateTestsWebsocket
    \/ GenerateDiagram
    \/ AnalyzeRequirements
    \/ OptimizeRequirements

SpecProxy == InitClock /\ [][NextProxy]_vars

----------------------------------------------------------------------------
(* Requests handled while the store cannot be reached *)

\* get_current_user when the query raises: the token is decoded and its
\* subject coerced as ever; the store's exception is no JWTError, nothing
\* catches it, get_db_connection re-raises it and the server answers 500
get_current_user_unavailable(sec, clock) ==
    IF sec.raised THEN Raised(sec.exc)
    ELSE
    LET decoded == jwt_decode(sec.credentials, SECRET_KEY, {ALGORITHM}, clock)
    IN  IF ~decoded.ok THEN Raised(credentials_exception)
        ELSE IF "sub" \notin DOMAIN decoded.payload THEN Raised(credentials_exception)
        ELSE IF ~int(decoded.payload.sub).ok THEN Raised(credentials_exception)
        ELSE Raised(internal_server_error)

\* get_optional_user when the query raises: the bare except returns None
get_optional_user_unavailable(sec, clock) ==
    IF sec.raised THEN Raised(sec.exc) ELSE Returned({})

\* get_active_user when the query raises: its dependency raised
get_active_user_unavailable(sec, clock) == get_current_user_unavailable(sec, clock)

\* register when the query raises: the first lookup is not guarded
register_unavailable(user) ==
    IF ~passwords_match(user) THEN validation_exception ELSE internal_server_error

\* login when the query raises: the lookup is not guarded
login_unavailable(form_data) == internal_server_error

\* the request's own fields, marked as handled without a store
Unavailable(req) == req @@ [store |-> "unavailable"]

MeUnavailable ==
    \E credentials \in Presented(now, held) : \E sec \in security(credentials) :
        LET r == get_current_user_unavailable(sec, now)
        IN  /\ resp' = Response("me", Unavailable([credentials |-> credentials]),
                                r.exc, {}, {})
            /\ UNCHANGED <<users, nextId, now, held, flight, hashed>>

UserStatusUnavailable ==
    \E credentials \in Presented(now, held) : \E sec \in security(credentials) :
        LET r == get_optional_user_unavailable(sec, now)
        IN  /\ resp' = [Response("user-status", Unavailable([credentials |-> credentials]),
                                 r.exc, {}, {})
                          EXCEPT !.body = IF r.raised THEN {}
                                          ELSE {[authenticated |-> FALSE, user_id |-> {}]}]
            /\ UNCHANGED <<users, nextId, now, held, flight, hashed>>

ActiveOnlyUnavailable ==
    \E credentials \in Presented(now, held) : \E sec \in security(credentials) :
        LET r == get_active_user_unavailable(sec, now)
        IN  /\ resp' = Response("active-only", Unavailable([credentials |-> credentials]),
                                r.exc, {}, {})
            /\ UNCHANGED <<users, nextId, now, held, flight, hashed>>

RegisterUnavailable ==
    \E user \in RegisterInputs :
        /\ resp' = Response("register", Unavailable(user), register_unavailable(user), {}, {})
        /\ UNCHANGED <<users, nextId, now, held, flight, hashed>>

LoginUnavailable ==
    \E form_data \in LoginInputs :
        /\ resp' = Response("login", Unavailable(form_data),
                             login_unavailable(form_data), {}, {})
        /\ UNCHANGED <<users, nextId, now, held, flight, hashed>>

\* the websocket handler when the query raises: its "except Exception"
\* answers as it answers a refused token, with the exception's text
GenerateTestsWebsocketUnavailable ==
    \E token \in Presented(now, held) \ {NoCredentials} :
        LET r == get_active_user_unavailable(MockCredentials(token), now)
        IN  /\ resp' = [Response("ws/generate-unit-tests",
                                 Unavailable([credentials |-> token]),
                                 [status |-> 1008, detail |-> r.exc.detail,
                                  headers |-> NoHeaders], {}, {})
                          EXCEPT !.events = websocket_refused(r.exc.detail)]
            /\ UNCHANGED <<users, nextId, now, held, flight, hashed>>

\* The account service and the websocket over a store that comes and goes
NextFault ==
    \/ Login
    \/ GetToken
    \/ Me
    \/ UserStatus
    \/ ActiveOnly
    \/ GenerateTestsWebsocket
    \/ MeUnavailable
    \/ UserStatusUnavailable
    \/ ActiveOnlyUnavailable
    \/ RegisterUnavailable
    \/ LoginUnavailable
    \/ GenerateTestsWebsocketUnavailable

SpecFault == InitClock /\ [][NextFault]_vars

----------------------------------------------------------------------------
(* Vocabulary of the properties *)

\* the externally visible failure of a response
ErrorOf(r) == [status |-> r.status, detail |-> r.detail, headers |-> r.headers]

Unauthorized == 401
Forbidden == 403
Conflict == 400

\* the token's signature segment decodes to the MAC of its header and
\* payload under the service's key, with the service's algorithm
CorrectlySigned(t) ==
    /\ t.kind = "jwt"
    /\ t.alg = "HS256"
    /\ t.tail \in {<<>>, <<"=">>}
    /\ t.mac = <<"your-secret-key-change-in-production", t.alg, t.claims>>

\* the token's expiry second has not passed at the clock's second
Unexpired(t, clock) ==
    "exp" \in DOMAIN t.claims => t.claims.exp >= clock \div TicksPerSecond

\* the token's subject is the decimal rendering of the account's identifier
Names(t, a) ==
    /\ "sub" \in DOMAIN t.claims
    /\ t.claims.sub # <<>>
    /\ \A i \in 1..Len(t.claims.sub) : IsDigit(t.claims.sub[i])
    /\ DigitsValue(t.claims.sub) = a.id

\* the accounts a token stands for: it is valid and names them
AccountsOf(t, db, clock) ==
    IF CorrectlySigned(t) /\ Unexpired(t, clock) THEN {a \in db : Names(t, a)} ELSE {}

\* the accounts register has created
Registered == users \ {SeedAccount}

----------------------------------------------------------------------------
(* C1 *)

\* C1: for any account created by a successful register and any login with
\* its username and password, the token login returns resolves under
\* get_current_user to that account, and the token with one more character
\* appended fails Unauthorized.
C1_LoginTokenResolves ==
    \A h \in held :
        (h.via = "login" /\ \E a \in Registered : a.id = h.uid) =>
            /\ (resp.op = "me" /\ resp.req.credentials = h.token)
                   => (resp.status = 200 /\ resp.uid = {h.uid})
            /\ (resp.op = "me" /\ resp.req.credentials \in Appended(h.token))
                   => resp.status = Unauthorized

----------------------------------------------------------------------------
(* C2 *)

\* C2: on every successful login the minted token's subject is the account's
\* identifier rendered as a decimal string.
C2_LoginSubjectIsId ==
    (resp.op = "login" /\ resp.status = 200) =>
        \A t \in resp.token : \A a \in users :
            a.username = resp.req.username => t.claims.sub = str(a.id)

----------------------------------------------------------------------------
(* C3 *)

\* C3: get_current_user resolves to an account if and only if the request
\* carries a correctly signed, unexpired token whose subject names an
\* account in the store, and then to exactly that account, active or not;
\* in every other case (no token, invalid token, no such account) the
\* request fails Unauthorized.
C3_RequiredPolicy ==
    resp.op = "me" =>
        LET named == AccountsOf(resp.req.credentials, users, now)
        IN  /\ resp.status = 200 <=> named # {}
            /\ resp.status = 200 => resp.uid = {a.id : a \in named}
            /\ resp.status # 200 => resp.status = Unauthorized

----------------------------------------------------------------------------
(* C4 *)

\* C4: get_optional_user raises no error for a request without a token or
\* with a malformed, expired or mis-signed token, and answers "no identity";
\* it resolves to an account only for a valid token naming an account.
C4_OptionalPolicy ==
    resp.op = "user-status" =>
        /\ resp.status = 200
        /\ resp.uid = {a.id : a \in AccountsOf(resp.req.credentials, users, now)}

----------------------------------------------------------------------------
(* C5 *)

\* C5: get_active_user runs the Required check first: without a valid token
\* naming an account the request fails Unauthorized whatever the accounts'
\* is_active flags are; a valid token of an inactive account fails Forbidden,
\* which differs from the Unauthorized of a request without token; a valid
\* token of an active account resolves to it.
C5_ActiveOnlyPolicy ==
    resp.op = "active-only" =>
        LET named == AccountsOf(resp.req.credentials, users, now)
        IN  /\ named = {} => resp.status = Unauthorized
            /\ (named # {} /\ \E a \in named : ~a.is_active)
                   => (resp.status = Forbidden /\ Forbidden # Unauthorized)
            /\ (named # {} /\ \A a \in named : a.is_active)
                   => (resp.status = 200 /\ resp.uid = {a.id : a \in named})

----------------------------------------------------------------------------
(* C6 *)

\* C6: under get_current_user every cause of failure - missing, malformed,
\* mis-signed or expired token, no subject, a subject that is no decimal
\* string, a subject naming no account - gives one and the same failure:
\* same status, same detail, same headers.
C6_UniformFailure ==
    (resp.op = "me" /\ resp.status # 200) =>
        ErrorOf(resp) = [status |-> 401, detail |-> "Could not validate credentials",
                         headers |-> "WWW-Authenticate: Bearer"]

----------------------------------------------------------------------------
(* C7 *)

\* the plaintext a stored credential was hashed from
PlainOf(a) == a.password.digest[1]

\* C7: a login with an unknown username and a login with a known username
\* and a wrong password give the identical failure (status Unauthorized,
\* same detail, same headers), and neither mints a token.
C7_LoginFailuresAlike ==
    (/\ resp.op = "login"
     /\ \A a \in users : a.username = resp.req.username => PlainOf(a) # resp.req.password)
        => /\ ErrorOf(resp) = [status |-> Unauthorized,
                               detail |-> "Invalid username or password",
                               headers |-> "WWW-Authenticate: Bearer"]
           /\ resp.token = {}

\* a login with a known username and a wrong password has been refused
C7_Witness ==
    /\ resp.op = "login"
    /\ \E a \in users : a.username = resp.req.username /\ PlainOf(a) # resp.req.password
    /\ resp.status = Unauthorized

----------------------------------------------------------------------------
(* C8 *)

\* the default time to live, 30 minutes, in ticks
DefaultTTL == 30 * 60 * TicksPerSecond

\* C8 as stated: a token verified at any instant after mint time + TTL fails.
C8_FailsRightAfterTTL ==
    \A h \in held :
        now > h.minted + DefaultTTL
            => ~jwt_decode(h.token, SECRET_KEY, {ALGORITHM}, now).ok

\* C8, amended: for every subject s, a token minted for s verifies to s at
\* every instant strictly before mint time + TTL, and fails at every instant
\* one second or more after mint time + TTL (the codec compares whole
\* seconds, so the token still verifies during the second of its expiry);
\* get_current_user follows: a get_token token resolves to its account
\* before, and is refused Unauthorized after.
C8_RoundTripExpiry ==
    \A h \in held :
        LET decoded == jwt_decode(h.token, SECRET_KEY, {ALGORITHM}, now)
            before == now < h.minted + DefaultTTL
            after == now >= h.minted + DefaultTTL + TicksPerSecond
            asked == resp.op = "me" /\ resp.req.credentials = h.token /\ h.via = "token"
        IN  /\ before => (decoded.ok /\ decoded.payload.sub = h.sub)
            /\ after => ~decoded.ok
            /\ (asked /\ before) => resp.uid = {h.uid}
            /\ (asked /\ after) => resp.status = Unauthorized

\* a token has been refused a second or more after its time to live
C8_Witness ==
    \E h \in held :
        /\ now >= h.minted + DefaultTTL + TicksPerSecond
        /\ resp.op = "me" /\ resp.req.credentials = h.token /\ h.via = "token"
        /\ resp.status = Unauthorized

----------------------------------------------------------------------------
(* C9 *)

\* the request presented this token to get_current_user or get_optional_user
Asked(t) == resp.op \in {"me", "user-status"} /\ resp.req.credentials = t

\* the answer of a failed verification: Unauthorized under Required, "no
\* identity" under Optional
Refused ==
    /\ resp.uid = {}
    /\ resp.op = "me" => resp.status = Unauthorized
    /\ resp.op = "user-status" => resp.status = 200

\* C9 as stated: a minted token with one character changed fails
\* verification and never resolves to an account.
C9_AnyChangeFails ==
    \A h \in held : \A t \in Tampered(h.token) : Asked(t) => Refused

\* the change reached the header, the payload or the signature's bytes
ContentChanged(t, u) ==
    t.kind # "jwt" \/ <<t.alg, t.claims, t.mac>> # <<u.alg, u.claims, u.mac>>

\* C9, amended: a minted token with one character changed in its header,
\* its payload or the data bits of its signature fails verification
\* (Unauthorized under Required, "no identity" under Optional); a change
\* confined to the unused low bits of the signature's final base64url
\* character decodes to the same signature and is answered as the original
\* token is; no such request ends in a server error, and none resolves to
\* an account other than the one the original token stands for.
C9_TamperedFails ==
    \A h \in held : \A t \in Tampered(h.token) :
        Asked(t) =>
            /\ resp.status \in {200, Unauthorized}
            /\ ContentChanged(t, h.token) => Refused
            /\ resp.uid \subseteq {a.id : a \in AccountsOf(h.token, users, now)}
            /\ ~ContentChanged(t, h.token)
                   => resp.uid = {a.id : a \in AccountsOf(h.token, users, now)}

\* a get_token token with its payload changed has been refused by
\* get_current_user while the original token stands for an account
C9_Witness ==
    \E h \in held : \E t \in Tampered(h.token) :
        /\ Asked(t) /\ resp.op = "me"
        /\ t.kind = "jwt" /\ t.claims # h.token.claims
        /\ AccountsOf(h.token, users, now) # {}
        /\ resp.status = Unauthorized

----------------------------------------------------------------------------
(* C10 *)

\* the step handles a register request that passed validation
RegisterStep ==
    /\ vars' # vars
    /\ resp'.op = "register"
    /\ resp'.req.confirm_password = resp'.req.password

\* C10: once a register with username u and email e has succeeded, every
\* later register with username u fails Conflict, and so does every later
\* register with another username and email e; a failed register creates no
\* account.  (Accounts stay in the store, and a register meeting a taken
\* username or email is refused.)
C10_SequentialRegistration ==
    [][ /\ users \subseteq users'
        /\ RegisterStep =>
            /\ (\E a \in users : a.username = resp'.req.username)
                   => (resp'.status = Conflict /\ users' = users)
            /\ (\E a \in users : a.email = resp'.req.email)
                   => (resp'.status = Conflict /\ users' = users)
            /\ resp'.status # 200 => users' = users
            /\ resp'.status = 200
                   => \E a \in users' \ users :
                          /\ a.username = resp'.req.username
                          /\ a.email = resp'.req.email
       ]_vars

\* a register with a free username and a taken email has been refused
C10_Witness ==
    /\ resp.op = "register"
    /\ resp.status = Conflict
    /\ \A a \in users : a.username # resp.req.username
    /\ \E a \in users \ {SeedAccount} : a.email = resp.req.email

----------------------------------------------------------------------------
(* Registrations that interleave *)

\* C11: a register request that passed validation and was refused, the
\* store's rejection of a raced insert included, ends with Conflict
C11_RacedRegisterConflicts ==
    (/\ resp.op = "register"
     /\ resp.req.password = resp.req.confirm_password
     /\ resp.uid = {})
        => resp.status = Conflict

\* C12: under any interleaving of register requests no two accounts share a
\* username or an email
C12_UniqueAccounts ==
    \A a \in users, b \in users :
        a # b => (a.username # b.username /\ a.email # b.email /\ a.id # b.id)

\* a raced insert was refused by the store: the username or email it
\* brought is held by an account although its lookups had found none
C12_Witness ==
    /\ resp.op = "register"
    /\ resp.status = 500
    /\ \E a \in users : a.username = resp.req.username \/ a.email = resp.req.email

----------------------------------------------------------------------------
(* Passwords and hashes stay inside *)

\* C13: the credential stored for a registered account is the hasher's
\* output for the password it registered with, and no response of register,
\* login, /me, /user-status or /active-only carries a password or a stored
\* hash: its body has no such field and its token holds a subject and an
\* expiry only
C13_NoCredentialDisclosed ==
    /\ \A a \in Registered :
          /\ a.password.scheme = "bcrypt"
          /\ \E p \in Passwords, salt \in Salts :
                a.password.digest = <<p, salt, a.password.rounds>>
    /\ resp.op \in {"register", "login", "me", "user-status", "active-only"}
         => /\ \A b \in resp.body :
                 DOMAIN b \cap {"password", "hashed_password", "confirm_password"} = {}
            /\ \A t \in resp.token : DOMAIN t.claims \subseteq {"sub", "exp"}

\* /me answered with the account of the token
C13_Witness ==
    /\ resp.op = "me"
    /\ resp.status = 200
    /\ \E b \in resp.body, a \in Registered : b.id = a.id

----------------------------------------------------------------------------
(* Validation comes first *)

\* C14: a register request whose confirm_password differs from its password
\* is answered with a validation error, never reaches the store's lookups
\* and leaves the store as it was
C14_MismatchRejectedFirst ==
    [][/\ \A w \in Workers : \A u \in flight'[w].user : u.confirm_password = u.password
       /\ (resp'.op = "register" /\ resp'.req.confirm_password # resp'.req.password)
            => (resp'.status = 422 /\ users' = users /\ nextId' = nextId)]_vars

\* the mismatching request is refused for its passwords although its email
\* is taken
C14_Witness ==
    /\ resp.op = "register"
    /\ resp.req.confirm_password # resp.req.password
    /\ resp.status = 422
    /\ \E a \in users : a.email = resp.req.email

----------------------------------------------------------------------------
(* The credential hasher *)

\* C15: for all plaintexts p1 and p2 and every hash h that hashing p2
\* produced, under whichever salt, verify(p1, h) is true exactly when p1 = p2
C15_VerifyIffEqual ==
    resp.op = "verify_password"
        => \A x \in hashed :
              x.hash = resp.req.hashed_password
                  => (/\ ~resp.raised
                      /\ resp.value <=> (resp.req.plain_password = x.plain))

\* C16: verify_password on a stored hash that is malformed returns false
\* and raises nothing, and a login against an account with such a credential
\* fails Unauthorized
C16_MalformedHashIsFalse ==
    /\ (resp.op = "verify_password" /\ resp.req.hashed_password.scheme # "bcrypt")
         => (~resp.raised /\ ~resp.value)
    /\ (/\ resp.op = "login"
        /\ \E a \in users : a.username = resp.req.username /\ a.password.scheme # "bcrypt")
         => resp.status = Unauthorized

----------------------------------------------------------------------------
(* What the operations leave alone *)

\* C17: a successful register adds exactly one account; login, get_token,
\* the three policies and a failed register leave the store as it was; no
\* operation changes the id, the username or is_active of an existing account
C17_OnlyRegisterWrites ==
    [][/\ IF resp'.op = "register" /\ resp'.status = 200
          THEN \E a \in users' \ users : users' = users \cup {a}
          ELSE users' = users
       /\ \A a \in users : \E b \in users' :
             b.id = a.id /\ b.username = a.username /\ b.is_active = a.is_active]_vars

\* a registration added an account next to the ones the store held
C17_Witness ==
    /\ resp.op = "register"
    /\ resp.status = 200
    /\ \E a \in users, b \in users : a.id \in resp.uid /\ b.id \notin resp.uid

----------------------------------------------------------------------------
(* No LLM call without an identity *)

LLMEndpoints ==
    {"generate-unit-tests", "generate-integration-tests", "ws/generate-unit-tests",
     "diagrams/generate", "requirements/analyze", "requirements/optimize"}

\* C18: a request to an LLM endpoint makes a provider call only if the
\* credentials it brought resolve to an account, and a request whose
\* credentials resolve to none is rejected without any provider call
C18_IdentityBeforeLLM ==
    resp.op \in LLMEndpoints
        => /\ resp.llm > 0
                => (/\ AccountsOf(resp.req.credentials, users, now) # {}
                    /\ resp.uid = {a.id : a \in AccountsOf(resp.req.credentials, users, now)})
           /\ AccountsOf(resp.req.credentials, users, now) = {}
                => (resp.llm = 0 /\ resp.status \in {401, 403, 1008})

\* the websocket endpoint has called the provider for the account its
\* token resolves to
C18_Witness ==
    /\ resp.op = "ws/generate-unit-tests"
    /\ resp.llm = 1
    /\ resp.uid # {}

----------------------------------------------------------------------------
(* Partial update *)

\* C19: partial update takes effect: after an update by the holder of a
\* valid token, each field the update supplied has the supplied value on the
\* token's account (the handle is cleared by the empty text, the email is
\* replaced unless another account holds it)
C19_PartialUpdate ==
    resp.op = "update"
        => \A a \in AccountsOf(resp.req.credentials, users, now) :
              LET fields == resp.req.fields
              IN  /\ fields.github_username # None
                      => a.github_username = fields.github_username
                  /\ fields.full_name # None => a.full_name \in fields.full_name
                  /\ (/\ fields.email # None
                      /\ ~\E b \in users : b.id # a.id /\ b.email \in fields.email)
                      => a.email \in fields.email

----------------------------------------------------------------------------
(* A login token and the accounts of others *)

\* C20: a token that a login of account A returned never resolves, under
\* the Required, the Optional or the ActiveOnly policy, to an account other
\* than A, whatever A's username is
C20_LoginTokenOnlyOwner ==
    resp.op \in {"me", "user-status", "active-only"}
        => \A h \in held :
              (h.via = "login" /\ resp.req.credentials = h.token)
                  => resp.uid \subseteq {h.uid}

----------------------------------------------------------------------------
(* Subjects that are no identifier *)

\* C21: for a correctly signed, unexpired token with a subject, the
\* Required policy fails Unauthorized and the Optional policy answers "no
\* identity" when the subject is no decimal integer text, neither with an
\* unhandled failure; when the subject is decimal digits, both resolve to
\* the account whose identifier is their value, if there is one
C21_SubjectCoercion ==
    (/\ resp.op \in {"me", "user-status"}
     /\ CorrectlySigned(resp.req.credentials)
     /\ Unexpired(resp.req.credentials, now)
     /\ "sub" \in DOMAIN resp.req.credentials.claims)
        => LET sub == resp.req.credentials.claims.sub
               decimal == sub # <<>> /\ \A i \in 1..Len(sub) : IsDigit(sub[i])
               named == IF decimal THEN {a.id : a \in {b \in users : b.id = DigitsValue(sub)}}
                        ELSE {}
           IN  /\ resp.uid = named
               /\ resp.status = IF resp.op = "me" /\ named = {} THEN Unauthorized ELSE 200

\* the Optional policy answered "no identity" to a signed token whose
\* subject is a name
C21_Witness ==
    /\ resp.op = "user-status"
    /\ resp.status = 200
    /\ resp.uid = {}
    /\ CorrectlySigned(resp.req.credentials)
    /\ "sub" \in DOMAIN resp.req.credentials.claims
    /\ resp.req.credentials.claims.sub = <<"a">>
    /\ users # {}

----------------------------------------------------------------------------
(* No revocation *)

\* C22: a token minted for an account, by login or by get_token, resolves
\* to that account under the Required policy whenever it is presented before
\* its expiry, whatever was handled since it was minted
C22_NoRevocation ==
    resp.op = "me"
        => \A h \in held :
              (/\ resp.req.credentials = h.token
               /\ Unexpired(h.token, now)
               /\ \E a \in users : a.id = h.uid)
                  => (resp.status = 200 /\ resp.uid = {h.uid})

----------------------------------------------------------------------------
(* The order of register's lookups *)

\* C23: a register request refused with Conflict is told "Username already
\* registered" whenever its username is taken, its email taken or not, and
\* "Email already registered" only when its username is free
C23_UsernameCheckedFirst ==
    (resp.op = "register" /\ resp.status = Conflict)
        => resp.detail = IF \E a \in users : a.username = resp.req.username
                         THEN "Username already registered"
                         ELSE "Email already registered"

\* a request whose username and email are both taken was refused
C23_Witness ==
    /\ resp.op = "register"
    /\ resp.status = Conflict
    /\ \E a \in users : a.username = resp.req.username
    /\ \E a \in users : a.email = resp.req.email /\ a.username # resp.req.username

----------------------------------------------------------------------------
(* Unexpected failures *)

\* C24: outside the Optional policy a request that gets as far as the store
\* while the store cannot be reached ends as a generic server-side failure:
\* under the Required and the ActiveOnly policy, in register, in login and
\* in the websocket's authentication
C24_FailurePropagates ==
    (/\ resp.op \in {"me", "active-only", "register", "login", "ws/generate-unit-tests"}
     /\ "store" \in DOMAIN resp.req
     /\ resp.op = "register" => resp.req.password = resp.req.confirm_password
     /\ resp.op \in {"me", "active-only", "ws/generate-unit-tests"}
          => (/\ CorrectlySigned(resp.req.credentials)
              /\ Unexpired(resp.req.credentials, now)
              /\ \E a \in users : Names(resp.req.credentials, a)))
        => resp.status \in {500, 1011}

\* C25: the Optional policy never blocks the request, and answers "no
\* identity" whenever the token does not decode or the store cannot be
\* reached
C25_OptionalSwallows ==
    resp.op = "user-status"
        => /\ resp.status = 200
           /\ ("store" \in DOMAIN resp.req \/ ~CorrectlySigned(resp.req.credentials))
                => resp.uid = {}

----------------------------------------------------------------------------
(* One attempt *)

----------------------------------------------------------------------------
(* Inactive accounts and the provider *)

\* C27: a request that brings the token of an inactive account makes no
\* call to the LLM provider, on any LLM endpoint
C27_InactiveNeverReachesLLM ==
    (/\ resp.op \in LLMEndpoints
     /\ \E a \in AccountsOf(resp.req.credentials, users, now) : ~a.is_active)
        => resp.llm = 0

----------------------------------------------------------------------------
(* get_token *)

NotFound == 404

\* C28: get_token(user_id) fails NotFound and mints nothing when no account
\* has that identifier; otherwise it returns, with no credential asked, a
\* token whose subject is the decimal text of user_id, and that token
\* resolves under the Required policy to that account until it expires
C28_GetToken ==
    /\ resp.op = "token"
         => IF \E a \in users : a.id = resp.req.user_id
            THEN /\ resp.status = 200
                 /\ resp.token # {}
                 /\ \A t \in resp.token :
                       t.claims.sub = (1 :> <<"1">> @@ 2 :> <<"2">> @@ 3 :> <<"3">>
                                       @@ 4 :> <<"4">>)[resp.req.user_id]
            ELSE resp.status = NotFound /\ resp.token = {}
    /\ resp.op = "me"
         => \A h \in held :
               (h.via = "token" /\ resp.req.credentials = h.token /\ Unexpired(h.token, now))
                   => (resp.status = 200 /\ resp.uid = {h.uid})

\* a token of get_token resolved to its account some time after it was minted
C28_Witness ==
    /\ resp.op = "me"
    /\ resp.status = 200
    /\ \E h \in held :
          /\ h.via = "token"
          /\ resp.req.credentials = h.token
          /\ resp.uid = {h.uid}
          /\ now > h.minted

----------------------------------------------------------------------------
(* The websocket's order of events *)

\* C29: on the test generation websocket, a token that resolves to no
\* active account gets: accept, one "Authentication error" message, close
\* with the policy-violation code, and nothing else (no client message read,
\* no provider call); a token that resolves to an active account gets the
\* accept first, the read of the client's message after it, and chunks only
\* after that read
C29_WebsocketOrder ==
    resp.op = "ws/generate-unit-tests"
        => LET accounts == AccountsOf(resp.req.credentials, users, now)
               e == resp.events
           IN  IF accounts # {} /\ \A a \in accounts : a.is_active
               THEN /\ Len(e) >= 2
                    /\ e[1] = "accept"
                    /\ e[2] = "receive_json"
                    /\ \A i \in 1..Len(e) :
                          e[i] \in {"send_text chunk", "send_text Error"} => i > 2
                    /\ resp.llm > 0 => resp.provider # "none"
               ELSE /\ e = <<"accept", "send_text Authentication error", "close 1008">>
                    /\ resp.status = 1008
                    /\ resp.llm = 0

\* an inactive account's token was refused on the websocket
C29_Witness ==
    /\ resp.op = "ws/generate-unit-tests"
    /\ resp.detail = "Inactive user"
    /\ Len(resp.events) = 3

====
